---- MODULE Spec2Model ----
(***************************************************************************)
(* A model of WhatsAppTracker (src/src/tracker.ts): one tracking session   *)
(* on one transport socket.  The state is the fields of the class, the     *)
(* listeners it registered on the socket, the asynchronous continuations   *)
(* it has in flight (startTracking awaiting presenceSubscribe, each        *)
(* probeLoop awaiting sendMessage or its delay timer) and the clock that   *)
(* Date.now() reads.                                                       *)
(*                                                                         *)
(* Specifications.  Spec is the session with its whole environment.  The   *)
(* properties are checked under smaller ones, each the program with a     *)
(* part of that environment: SpecProbe, SpecPause, SpecStatus, SpecTimeout *)
(* and SpecDelay (the probe path), SpecPresence and SpecShared (the probe  *)
(* path with presence events), SpecClassify (the classifier fed directly), *)
(* SpecRing (the buffers driven past their capacity) and SpecDashboard     *)
(* (the delay form of the client), SpecContacts (the contact map of the    *)
(* client under its socket events).  SpecCli is the command-line program   *)
(* (connectToWhatsApp): its connection events, its prompt, the trackers it *)
(* creates, each reduced to its isTracking flag.                           *)
(*                                                                         *)
(* Numbers.  Times and RTTs are integer milliseconds.  The two quantities  *)
(* of the source that need not be integers are carried exactly: a median   *)
(* is carried doubled (Median2 = 2 * median) and a mean is carried as the  *)
(* pair <<sum, length>>.  The comparison movingAvg < median * 0.8 is done  *)
(* on these exactly (see MovingAvgBelowThreshold).                         *)
(***************************************************************************)
EXTENDS Integers, Sequences, FiniteSets, TLC

(***************************************************************************)
(* Bounds of the model.                                                    *)
(***************************************************************************)
MaxTicks == 2
MaxProbes == 2
MaxStarts == 1
MaxSamples == 4
MaxRingPushes == 2050
MaxFieldLen == 2
MaxSockets == 3
MaxTrackers == 3
MaxPoints == 1
MaxErrors == 1

(***************************************************************************)
(* Constants of the program.                                               *)
(***************************************************************************)
RecentCap == 3
HistoryCap == 2000
GlobalCap == 2000
OfflineCutoff == 5000
MinSamples == 3
ThresholdNum == 4
ThresholdDen == 5
DeliveryAck == 3
DelayBase == 2000
DelaySpread == 100

(* The clock advances in steps of TickMs; Math.random() is k / RandomDen.  *)
TickMs == DelayBase
RandomDen == 1000
RandomNumerators == {0, RandomDen - 1}

targetJid == "target"
JIDS == {"target", "lid"}
NoJid == "nojid"
NoId == 0
NoStatus == -1
NoPresence == "nopresence"
Presences == {"available", "unavailable"}
Statuses == {NoStatus, 0, 1, 2, 3, 4, 5}
ProbeStatuses == {NoStatus, 3, 4}

Calibrating == "Calibrating..."
Online == "An (Online)"
Standby == "Standby"
Offline == "OFFLINE"

VARIABLES
    now,              \* what Date.now() returns
    trackedJids,      \* Set<string>
    isTracking,       \* boolean
    deviceMetrics,    \* Map<string, DeviceMetrics>, as its entries in insertion order
    globalRttHistory, \* number[]
    probeStartTimes,  \* Map<string, number>, as a function on the pending ids
    probeTimeouts,    \* Map<string, Timeout>, as the set of ids holding a timer
    lastPresence,     \* string | null
    listeners,        \* how many (messages.update, presence.update) listener pairs are on sock.ev
    subscribing,      \* startTracking calls suspended at await presenceSubscribe
    loops,            \* the probeLoop invocations, in order of creation
    nextId,           \* the next message id the transport hands out
    emitted,          \* the snapshots the last step passed to onUpdate, in order
    fed,              \* history: every (jid, rtt) passed to addMeasurementForDevice
    last,             \* history: the operation that produced this state
    dashboard,        \* the Dashboard component of the client: its delay form and contact map
    cli               \* the command-line program: its sockets, prompts and trackers

vars == <<cli, now, trackedJids, isTracking, deviceMetrics, globalRttHistory,
          probeStartTimes, probeTimeouts, lastPresence, listeners, subscribing,
          loops, nextId, emitted, fed, last, dashboard>>

(***************************************************************************)
(* The mutable fields of the tracker as one record, so that the handlers   *)
(* can be written as functions from tracker to tracker.                    *)
(***************************************************************************)
Tracker ==
    [trackedJids |-> trackedJids, isTracking |-> isTracking,
     deviceMetrics |-> deviceMetrics, globalRttHistory |-> globalRttHistory,
     probeStartTimes |-> probeStartTimes, probeTimeouts |-> probeTimeouts,
     lastPresence |-> lastPresence, emitted |-> <<>>, fed |-> fed]

Install(t) ==
    /\ trackedJids' = t.trackedJids
    /\ isTracking' = t.isTracking
    /\ deviceMetrics' = t.deviceMetrics
    /\ globalRttHistory' = t.globalRttHistory
    /\ probeStartTimes' = t.probeStartTimes
    /\ probeTimeouts' = t.probeTimeouts
    /\ lastPresence' = t.lastPresence
    /\ emitted' = t.emitted
    /\ fed' = t.fed

(***************************************************************************)
(* Sequences.                                                              *)
(***************************************************************************)
Range(s) == {s[i] : i \in 1..Len(s)}

RECURSIVE SumSeq(_)
SumSeq(s) == IF s = <<>> THEN 0 ELSE Head(s) + SumSeq(Tail(s))

CountLess(s, v) == Cardinality({i \in 1..Len(s) : s[i] < v})
CountLessEq(s, v) == Cardinality({i \in 1..Len(s) : s[i] <= v})

(* [...buf].sort((a, b) => a - b): the ascending rearrangement of buf.     *)
SortedCopy(buf) ==
    [i \in 1..Len(buf) |->
        CHOOSE v \in Range(buf) : CountLess(buf, v) < i /\ i <= CountLessEq(buf, v)]

(* PushBounded altered:   pop() for shift(), the newest element is dropped *)
PushBoundedDropNewest(buf, v, cap) ==
    LET pushed == Append(buf, v)
    IN  IF Len(pushed) > cap THEN SubSeq(pushed, 1, cap) ELSE pushed

(* push, then one shift if longer than the capacity                        *)
PushBounded(buf, v, cap) ==
    LET pushed == Append(buf, v)
    IN  IF Len(pushed) > cap THEN Tail(pushed) ELSE pushed

(***************************************************************************)
(* Device metrics: the Map as a sequence of entries, in insertion order.   *)
(***************************************************************************)
HasDevice(dm, jid) == \E i \in 1..Len(dm) : dm[i].jid = jid
DeviceIndex(dm, jid) == CHOOSE i \in 1..Len(dm) : dm[i].jid = jid
GetDevice(dm, jid) == dm[DeviceIndex(dm, jid)]
DeviceJids(dm) == {dm[i].jid : i \in 1..Len(dm)}

(***************************************************************************)
(* The median of the population buffer, doubled.                           *)
(***************************************************************************)
(* Median2 altered:   the copy is not sorted                               *)
Median2Unsorted(buf) ==
    LET mid == Len(buf) \div 2
    IN  IF Len(buf) % 2 # 0
        THEN 2 * buf[mid + 1]
        ELSE buf[mid] + buf[mid + 1]

Median2(buf) ==
    LET sorted == SortedCopy(buf)
        mid == Len(buf) \div 2
    IN  IF Len(buf) % 2 # 0
        THEN 2 * sorted[mid + 1]
        ELSE sorted[mid] + sorted[mid + 1]

calculateGlobalMedian(buf) ==
    IF Len(buf) < MinSamples THEN 0 ELSE Median2(buf)

(* the local `median` of determineDeviceState: 0 unless the buffer has 3 samples *)
DeviceStateMedian(buf) ==
    IF Len(buf) >= MinSamples THEN Median2(buf) ELSE 0

(* MovingAvgBelowThreshold altered:   <= for <                            *)
MovingAvgAtOrBelowThreshold(recent, median2) ==
    /\ Len(recent) > 0
    /\ 2 * ThresholdDen * SumSeq(recent) <= ThresholdNum * median2 * Len(recent)

(* movingAvg < median * 0.8 with movingAvg = sum / len (NaN when len = 0,  *)
(* and NaN < x is false) and median = median2 / 2.                         *)
MovingAvgBelowThreshold(recent, median2) ==
    /\ Len(recent) > 0
    /\ 2 * ThresholdDen * SumSeq(recent) < ThresholdNum * median2 * Len(recent)

ClassifyState(recent, global) ==
    IF Len(global) >= MinSamples
    THEN IF MovingAvgBelowThreshold(recent, DeviceStateMedian(global))
         THEN Online ELSE Standby
    ELSE Calibrating

(* determineDeviceState altered:   Offline is kept whatever lastRtt is     *)
determineDeviceStateSticky(t, jid) ==
    IF ~HasDevice(t.deviceMetrics, jid) THEN t
    ELSE LET i == DeviceIndex(t.deviceMetrics, jid)
             metrics == t.deviceMetrics[i]
         IN  IF metrics.state = Offline
             THEN t
             ELSE [t EXCEPT !.deviceMetrics[i].state =
                        ClassifyState(metrics.recentRtts, t.globalRttHistory)]

(* determineDeviceState altered:   the population buffer itself is sorted, *)
(* not a copy of it                                                        *)
determineDeviceStateSortingInPlace(t, jid) ==
    IF ~HasDevice(t.deviceMetrics, jid) THEN t
    ELSE LET i == DeviceIndex(t.deviceMetrics, jid)
             metrics == t.deviceMetrics[i]
         IN  IF metrics.state = Offline /\ metrics.lastRtt > OfflineCutoff
             THEN t
             ELSE [t EXCEPT !.deviceMetrics[i].state =
                        ClassifyState(metrics.recentRtts, t.globalRttHistory),
                            !.globalRttHistory =
                        IF Len(@) >= MinSamples THEN SortedCopy(@) ELSE @]

(* determineDeviceState altered:   no sticky Offline check                 *)
determineDeviceStateNoSticky(t, jid) ==
    IF ~HasDevice(t.deviceMetrics, jid) THEN t
    ELSE LET i == DeviceIndex(t.deviceMetrics, jid)
             metrics == t.deviceMetrics[i]
         IN  [t EXCEPT !.deviceMetrics[i].state =
                        ClassifyState(metrics.recentRtts, t.globalRttHistory)]

determineDeviceState(t, jid) ==
    IF ~HasDevice(t.deviceMetrics, jid) THEN t
    ELSE LET i == DeviceIndex(t.deviceMetrics, jid)
             metrics == t.deviceMetrics[i]
         IN  IF metrics.state = Offline /\ metrics.lastRtt > OfflineCutoff
             THEN t
             ELSE [t EXCEPT !.deviceMetrics[i].state =
                        ClassifyState(metrics.recentRtts, t.globalRttHistory)]

MovingAvg(recent) ==
    IF Len(recent) > 0 THEN <<SumSeq(recent), Len(recent)>> ELSE <<0, 1>>

BuildSnapshot(t) ==
    [devices |-> [i \in 1..Len(t.deviceMetrics) |->
                    [jid |-> t.deviceMetrics[i].jid,
                     state |-> t.deviceMetrics[i].state,
                     rtt |-> t.deviceMetrics[i].lastRtt,
                     avg |-> MovingAvg(t.deviceMetrics[i].recentRtts)]],
     deviceCount |-> Cardinality(t.trackedJids),
     presence |-> t.lastPresence,
     median2 |-> calculateGlobalMedian(t.globalRttHistory),
     threshold10 |-> ThresholdNum * calculateGlobalMedian(t.globalRttHistory)]

(* this.onUpdate(snapshot), a listener being attached                      *)
Emit(t, snapshot) == [t EXCEPT !.emitted = Append(@, snapshot)]

sendUpdate(t) == Emit(t, BuildSnapshot(t))

NewMetrics(jid, rtt, time) ==
    [jid |-> jid, rttHistory |-> <<>>, recentRtts |-> <<>>, state |-> Calibrating,
     lastRtt |-> rtt, lastUpdate |-> time]

(* RecordSample altered:   a sample above the cutoff is not kept in lastRtt *)
RecordSampleInRangeOnly(metrics, rtt, time) ==
    IF rtt <= OfflineCutoff
    THEN [metrics EXCEPT !.recentRtts = PushBounded(@, rtt, RecentCap),
                         !.rttHistory = PushBounded(@, rtt, HistoryCap),
                         !.lastRtt = rtt,
                         !.lastUpdate = time]
    ELSE [metrics EXCEPT !.state = Offline, !.lastUpdate = time]

(* RecordSample altered:   the recent buffer is not bounded                *)
RecordSampleRecentUnbounded(metrics, rtt, time) ==
    IF rtt <= OfflineCutoff
    THEN [metrics EXCEPT !.recentRtts = Append(@, rtt),
                         !.rttHistory = PushBounded(@, rtt, HistoryCap),
                         !.lastRtt = rtt,
                         !.lastUpdate = time]
    ELSE [metrics EXCEPT !.lastRtt = rtt, !.state = Offline, !.lastUpdate = time]

(* RecordSample altered:   an outlier does not mark the device Offline     *)
RecordSampleNeverOffline(metrics, rtt, time) ==
    IF rtt <= OfflineCutoff
    THEN [metrics EXCEPT !.recentRtts = PushBounded(@, rtt, RecentCap),
                         !.rttHistory = PushBounded(@, rtt, HistoryCap),
                         !.lastRtt = rtt,
                         !.lastUpdate = time]
    ELSE [metrics EXCEPT !.lastRtt = rtt, !.lastUpdate = time]

RecordSample(metrics, rtt, time) ==
    IF rtt <= OfflineCutoff
    THEN [metrics EXCEPT !.recentRtts = PushBounded(@, rtt, RecentCap),
                         !.rttHistory = PushBounded(@, rtt, HistoryCap),
                         !.lastRtt = rtt,
                         !.lastUpdate = time]
    ELSE [metrics EXCEPT !.lastRtt = rtt, !.state = Offline, !.lastUpdate = time]

(* RecordGlobal altered:   the cutoff is not tested                        *)
RecordGlobalAlways(global, rtt) == PushBounded(global, rtt, GlobalCap)

RecordGlobal(global, rtt) ==
    IF rtt <= OfflineCutoff THEN PushBounded(global, rtt, GlobalCap) ELSE global

(* addMeasurementForDevice altered:   the snapshot is sent before the      *)
(* state is recomputed                                                     *)
addMeasurementEmitFirst(t, jid, rtt, time) ==
    LET dm0 == IF HasDevice(t.deviceMetrics, jid)
               THEN t.deviceMetrics
               ELSE Append(t.deviceMetrics, NewMetrics(jid, rtt, time))
        i == DeviceIndex(dm0, jid)
        t1 == [t EXCEPT !.deviceMetrics = [dm0 EXCEPT ![i] = RecordSample(@, rtt, time)],
                        !.globalRttHistory = RecordGlobal(@, rtt),
                        !.fed = Append(@, <<jid, rtt>>)]
    IN  determineDeviceState(sendUpdate(t1), jid)

(* addMeasurementForDevice altered:   every device is reclassified         *)
RECURSIVE ReclassifyAll(_, _)
ReclassifyAll(t, i) ==
    IF i > Len(t.deviceMetrics) THEN t
    ELSE ReclassifyAll(determineDeviceState(t, t.deviceMetrics[i].jid), i + 1)

addMeasurementReclassifyingAll(t, jid, rtt, time) ==
    LET dm0 == IF HasDevice(t.deviceMetrics, jid)
               THEN t.deviceMetrics
               ELSE Append(t.deviceMetrics, NewMetrics(jid, rtt, time))
        i == DeviceIndex(dm0, jid)
        t1 == [t EXCEPT !.deviceMetrics = [dm0 EXCEPT ![i] = RecordSample(@, rtt, time)],
                        !.globalRttHistory = RecordGlobal(@, rtt),
                        !.fed = Append(@, <<jid, rtt>>)]
    IN  sendUpdate(ReclassifyAll(t1, 1))

addMeasurementForDevice(t, jid, rtt, time) ==
    LET dm0 == IF HasDevice(t.deviceMetrics, jid)
               THEN t.deviceMetrics
               ELSE Append(t.deviceMetrics, NewMetrics(jid, rtt, time))
        i == DeviceIndex(dm0, jid)
        t1 == [t EXCEPT !.deviceMetrics = [dm0 EXCEPT ![i] = RecordSample(@, rtt, time)],
                        !.globalRttHistory = RecordGlobal(@, rtt),
                        !.fed = Append(@, <<jid, rtt>>)]
    IN  sendUpdate(determineDeviceState(t1, jid))

(***************************************************************************)
(* Acknowledgments (messages.update).  An update is                        *)
(* [remoteJid, fromMe, id, status]; NoJid, NoId and NoStatus stand for a   *)
(* missing (falsy) field.                                                  *)
(***************************************************************************)
Updates(ids, statuses) ==
    [remoteJid : JIDS \cup {NoJid}, fromMe : BOOLEAN,
     id : ids \cup {NoId}, status : statuses]

(* if (startTime): the id is pending and its start time is not 0           *)
HasStartTime(pending, id) == id \in DOMAIN pending /\ pending[id] # 0

RemoveKey(f, k) == [x \in DOMAIN f \ {k} |-> f[x]]

(* analyzeUpdate altered:   the start time is used without the test that   *)
(* it was found                                                            *)
analyzeUpdateUnchecked(t, update, time) ==
    IF update.id = NoId \/ update.remoteJid = NoJid THEN t
    ELSE IF update.status = DeliveryAck
         THEN LET start == IF update.id \in DOMAIN t.probeStartTimes
                           THEN t.probeStartTimes[update.id] ELSE 0
                  t1 == [t EXCEPT !.probeTimeouts = @ \ {update.id},
                                  !.probeStartTimes = RemoveKey(@, update.id)]
              IN  addMeasurementForDevice(t1, update.remoteJid, time - start, time)
         ELSE t

(* analyzeUpdate altered:   read and played count as delivered             *)
analyzeUpdateAnyAck(t, update, time) ==
    IF update.id = NoId \/ update.remoteJid = NoJid THEN t
    ELSE IF update.status >= DeliveryAck /\ HasStartTime(t.probeStartTimes, update.id)
         THEN LET rtt == time - t.probeStartTimes[update.id]
                  t1 == [t EXCEPT !.probeTimeouts = @ \ {update.id},
                                  !.probeStartTimes = RemoveKey(@, update.id)]
              IN  addMeasurementForDevice(t1, update.remoteJid, rtt, time)
         ELSE t

(* analyzeUpdate altered:   the pending entry is not deleted on a match    *)
analyzeUpdateKeepingEntry(t, update, time) ==
    IF update.id = NoId \/ update.remoteJid = NoJid THEN t
    ELSE IF update.status = DeliveryAck /\ HasStartTime(t.probeStartTimes, update.id)
         THEN addMeasurementForDevice(t, update.remoteJid,
                                      time - t.probeStartTimes[update.id], time)
         ELSE t

analyzeUpdate(t, update, time) ==
    IF update.id = NoId \/ update.remoteJid = NoJid THEN t
    ELSE IF update.status = DeliveryAck /\ HasStartTime(t.probeStartTimes, update.id)
         THEN LET rtt == time - t.probeStartTimes[update.id]
                  t1 == [t EXCEPT !.probeTimeouts = @ \ {update.id},
                                  !.probeStartTimes = RemoveKey(@, update.id)]
              IN  addMeasurementForDevice(t1, update.remoteJid, rtt, time)
         ELSE t

(* Routed altered:   fromMe is not tested                                  *)
RoutedAnyOrigin(t, update) ==
    /\ update.remoteJid # NoJid
    /\ update.remoteJid \in t.trackedJids

(* Routed altered:   the tracked set is not consulted                      *)
RoutedUntracked(t, update) ==
    /\ update.remoteJid # NoJid
    /\ update.fromMe

Routed(t, update) ==
    /\ update.remoteJid # NoJid
    /\ update.remoteJid \in t.trackedJids
    /\ update.fromMe

RECURSIVE onMessagesUpdate(_, _, _)
onMessagesUpdate(t, updates, time) ==
    IF updates = <<>> THEN t
    ELSE LET update == Head(updates)
             t1 == IF Routed(t, update) THEN analyzeUpdate(t, update, time) ELSE t
         IN  onMessagesUpdate(t1, Tail(updates), time)

(***************************************************************************)
(* Presence (presence.update).  update.presences is a sequence of          *)
(* [jid, presence] entries in the order Object.entries yields them;        *)
(* NoPresence stands for an entry without lastKnownPresence.               *)
(***************************************************************************)
PresenceEntries == [jid : JIDS, presence : Presences \cup {NoPresence}]

PresenceUpdates ==
    {<<>>} \cup {<<e>> : e \in PresenceEntries}
           \cup {<<p[1], p[2]>> : p \in {q \in PresenceEntries \X PresenceEntries :
                                            q[1].jid # q[2].jid}}

(* onPresenceUpdate altered:   an identity not yet tracked is only added,  *)
(* its presence is stored when it is seen again                            *)
RECURSIVE onPresenceUpdateStepwise(_, _)
onPresenceUpdateStepwise(t, entries) ==
    IF entries = <<>> THEN t
    ELSE IF Head(entries).presence # NoPresence
         THEN IF Head(entries).jid \in t.trackedJids
              THEN [t EXCEPT !.lastPresence = Head(entries).presence]
              ELSE [t EXCEPT !.trackedJids = @ \cup {Head(entries).jid}]
         ELSE onPresenceUpdateStepwise(t, Tail(entries))

RECURSIVE onPresenceUpdate(_, _)
onPresenceUpdate(t, entries) ==
    IF entries = <<>> THEN t
    ELSE IF Head(entries).presence # NoPresence
         THEN [t EXCEPT !.trackedJids = @ \cup {Head(entries).jid},
                        !.lastPresence = Head(entries).presence]
         ELSE onPresenceUpdate(t, Tail(entries))

(* history: what became of an acknowledgment event                         *)
AckKind(update) ==
    IF listeners = 0 THEN "ackUnheard"
    ELSE IF ~Routed(Tracker, update) \/ update.id = NoId THEN "ackUnrouted"
    ELSE IF update.status # DeliveryAck THEN "ackOtherStatus"
    ELSE IF HasStartTime(probeStartTimes, update.id) THEN "ackPending"
    ELSE "ackUnmatched"

(* sock.ev calls every registered listener with the event, in turn.        *)
RECURSIVE EmitMessagesUpdate(_, _, _, _)
EmitMessagesUpdate(t, n, updates, time) ==
    IF n = 0 THEN t
    ELSE EmitMessagesUpdate(onMessagesUpdate(t, updates, time), n - 1, updates, time)

RECURSIVE EmitPresenceUpdate(_, _, _)
EmitPresenceUpdate(t, n, entries) ==
    IF n = 0 THEN t
    ELSE EmitPresenceUpdate(onPresenceUpdate(t, entries), n - 1, entries)

(* stopTracking altered:   the statistics are reset as well                *)
stopTrackingResetting(t) ==
    [t EXCEPT !.isTracking = FALSE,
              !.probeTimeouts = {},
              !.probeStartTimes = <<>>,
              !.deviceMetrics = <<>>,
              !.globalRttHistory = <<>>]

(* stopTracking altered:   the tracked set is reset to the target           *)
stopTrackingForgetting(t) ==
    [t EXCEPT !.isTracking = FALSE,
              !.probeTimeouts = {},
              !.probeStartTimes = <<>>,
              !.trackedJids = {targetJid}]

(* stopTracking altered:   a probe still pending at the stop counts as a   *)
(* timeout and marks the devices Offline                                   *)
stopTrackingExpiring(t) ==
    [t EXCEPT !.isTracking = FALSE,
              !.probeTimeouts = {},
              !.probeStartTimes = <<>>,
              !.deviceMetrics =
                  IF DOMAIN t.probeStartTimes = {} THEN @
                  ELSE [i \in 1..Len(@) |-> [@[i] EXCEPT !.state = Offline]]]

(***************************************************************************)
(* stopTracking                                                            *)
(***************************************************************************)
stopTracking(t) ==
    [t EXCEPT !.isTracking = FALSE,
              !.probeTimeouts = {},
              !.probeStartTimes = <<>>]

(***************************************************************************)
(* The probe loop.  A loop is [pc, id, wakeAt]: "send" while sendProbe     *)
(* awaits sock.sendMessage for message id `id`, "sent" once sendProbe has   *)
(* returned and the continuation of the loop is queued, "sleep" while it   *)
(* awaits its delay timer, "done" once it has left the while loop.         *)
(***************************************************************************)
(* ProbeDelay altered:   Math.round for Math.floor                         *)
ProbeDelayRounded(k) ==
    ((2 * k * DelaySpread + RandomDen) \div (2 * RandomDen)) + DelayBase

ProbeDelay(k) == ((k * DelaySpread) \div RandomDen) + DelayBase

LoopSending(id) == [pc |-> "send", id |-> id, wakeAt |-> 0]
LoopReturned == [pc |-> "sent", id |-> NoId, wakeAt |-> 0]
LoopSleeping(wakeAt) == [pc |-> "sleep", id |-> NoId, wakeAt |-> wakeAt]
LoopDone == [pc |-> "done", id |-> NoId, wakeAt |-> 0]

(* LoopIteration altered:   the flag is not tested                         *)
LoopIterationIgnoringFlag(tracking, id) == LoopSending(id)

(* while (this.isTracking): what a loop does when it tests the flag        *)
LoopIteration(tracking, id) == IF tracking THEN LoopSending(id) ELSE LoopDone

SendOutcomes == {"ok", "noid", "reject"}

(* RegisterProbe altered:   the probe is registered whatever the outcome   *)
RegisterProbeAlways(pending, outcome, id, time) ==
    [x \in DOMAIN pending \cup {id} |-> IF x = id THEN time ELSE pending[x]]

(* sendProbe after await sock.sendMessage: register only when an id came back *)
RegisterProbe(pending, outcome, id, time) ==
    IF outcome = "ok" THEN [x \in DOMAIN pending \cup {id} |->
                              IF x = id THEN time ELSE pending[x]]
    ELSE pending

(* TimersAfterSend altered:   a registered probe gets a timer              *)
TimersAfterSendArmed(timeouts, outcome, id) ==
    IF outcome = "ok" THEN timeouts \cup {id} ELSE timeouts

(* sendProbe creates no timeout timer: probeTimeouts is never written to   *)
TimersAfterSend(timeouts, outcome, id) == timeouts

InitialSnapshot(t) ==
    [devices |-> <<>>, deviceCount |-> Cardinality(t.trackedJids),
     presence |-> t.lastPresence, median2 |-> 0, threshold10 |-> 0]

(***************************************************************************)
(* The Dashboard component of the client (App.tsx): the probe-delay form.  *)
(* The text of a number field is a sequence of characters, each a digit or *)
(* NonDigit (a character parseInt stops at, such as "e" or "."); NaN       *)
(* stands for the number parseInt returns when no digit leads the text.    *)
(* dashboard.sent holds what the last step emitted as set-probe-delay, and *)
(* dashboard.applied the configuration last emitted, the one in force.     *)
(***************************************************************************)
NonDigit == 10
NaN == -1
FieldChars == {1, 5, NonDigit}
NoError == "null"
DelayError == "Min delay must be less than max delay"

(* the texts of a field, up to maxLen characters                           *)
FieldTexts(maxLen) == UNION {[1..n -> FieldChars] : n \in 0..maxLen}

(* parseInt(text): the number its leading digits spell, NaN without one    *)
RECURSIVE ParseDigits(_, _)
ParseDigits(text, acc) ==
    IF text = <<>> \/ Head(text) = NonDigit THEN acc
    ELSE ParseDigits(Tail(text), 10 * acc + Head(text))

ParseInt(text) ==
    IF text = <<>> \/ Head(text) = NonDigit THEN NaN ELSE ParseDigits(text, 0)

(* a >= b on numbers: false when either is NaN                             *)
NumGreaterEq(a, b) == a # NaN /\ b # NaN /\ a >= b

DashboardInit ==
    [minDelay |-> 500, maxDelay |-> 1000, error |-> NoError,
     delayApplying |-> FALSE, sent |-> <<>>,
     applied |-> [minDelay |-> 500, maxDelay |-> 1000],
     contacts |-> <<>>, event |-> <<"none", <<>>>>, errorTimers |-> 0]

(* handleDelayChange: the new state of the component                       *)
handleDelayChange(d) ==
    IF NumGreaterEq(d.minDelay, d.maxDelay)
    THEN [d EXCEPT !.error = DelayError, !.sent = <<>>]
    ELSE [d EXCEPT !.delayApplying = TRUE,
                   !.sent = <<[minDelay |-> d.minDelay, maxDelay |-> d.maxDelay]>>,
                   !.applied = [minDelay |-> d.minDelay, maxDelay |-> d.maxDelay]]

(* onError: the message is shown and a 3000 ms timer is set to clear it    *)
onError(d, data) ==
    [d EXCEPT !.error = data.message, !.errorTimers = @ + 1,
              !.event = <<"error", <<>>>>, !.sent = <<>>]

(* the callback of a timer of onError: setError(null)                      *)
onErrorTimeout(d) ==
    [d EXCEPT !.error = NoError, !.errorTimers = @ - 1,
              !.event = <<"error-timeout", <<>>>>, !.sent = <<>>]

(***************************************************************************)
(* The contact map of the Dashboard: Map<string, ContactInfo>, as its      *)
(* entries in insertion order.  A string that the code takes apart (an     *)
(* identifier, a number, a name) is the sequence of its pieces; '' is <<>>.*)
(* An update is a record with the set `has` of the fields that are not     *)
(* undefined.                                                              *)
(***************************************************************************)
Null == "null"
WhatsAppId == <<"491", "@", "s.whatsapp.net">>
SignalId == <<"signal:", "492">>
ContactIds == {WhatsAppId, SignalId}
MissingJid == <<>>
NoPlatform == "undefined"

HasContact(cs, jid) == \E i \in 1..Len(cs) : cs[i].jid = jid
ContactIndex(cs, jid) == CHOOSE i \in 1..Len(cs) : cs[i].jid = jid
ContactJids(cs) == {cs[i].jid : i \in 1..Len(cs)}

(* next.set(jid, contact)                                                  *)
SetContact(cs, contact) ==
    IF HasContact(cs, contact.jid)
    THEN [cs EXCEPT ![ContactIndex(cs, contact.jid)] = contact]
    ELSE Append(cs, contact)

(* next.delete(jid)                                                        *)
DeleteContact(cs, jid) == SelectSeq(cs, LAMBDA c : c.jid # jid)

(* id.split('@')[0]                                                        *)
RECURSIVE BeforeAt(_)
BeforeAt(id) ==
    IF id = <<>> \/ Head(id) = "@" THEN <<>> ELSE <<Head(id)>> \o BeforeAt(Tail(id))

(* id.replace('signal:', '')                                               *)
RECURSIVE WithoutSignalPrefix(_)
WithoutSignalPrefix(id) ==
    IF id = <<>> THEN <<>>
    ELSE IF Head(id) = "signal:" THEN Tail(id)
    ELSE <<Head(id)>> \o WithoutSignalPrefix(Tail(id))

DisplayNumber(id, platform) ==
    IF platform = "signal" THEN WithoutSignalPrefix(id) ELSE BeforeAt(id)

(* data.devices.find(d => d.state.includes('Online'))?.state || data.devices[0].state *)
PointState(devices) ==
    IF \E i \in 1..Len(devices) : devices[i].state = Online
    THEN Online
    ELSE devices[1].state

(* onTrackerUpdate altered:   an unknown identifier gets a contact         *)
onTrackerUpdateCreating(cs, update, time) ==
    IF update.jid = MissingJid THEN cs
    ELSE IF HasContact(cs, update.jid) THEN cs
    ELSE Append(cs, [jid |-> update.jid, displayNumber |-> update.jid,
                     contactName |-> update.jid, data |-> <<>>, devices |-> <<>>,
                     deviceCount |-> 0, presence |-> Null, profilePic |-> Null,
                     platform |-> "whatsapp", isTracking |-> TRUE])

onTrackerUpdate(cs, update, time) ==
    IF update.jid = MissingJid \/ ~HasContact(cs, update.jid) THEN cs
    ELSE LET contact == cs[ContactIndex(cs, update.jid)]
             c1 == IF "presence" \in update.has
                   THEN [contact EXCEPT !.presence = update.presence] ELSE contact
             c2 == IF "deviceCount" \in update.has
                   THEN [c1 EXCEPT !.deviceCount = update.deviceCount] ELSE c1
             c3 == IF "devices" \in update.has
                   THEN [c2 EXCEPT !.devices = update.devices] ELSE c2
             c4 == IF /\ "median" \in update.has
                      /\ "devices" \in update.has
                      /\ Len(update.devices) > 0
                   THEN [c3 EXCEPT !.data = Append(@,
                            [rtt |-> update.devices[1].rtt,
                             avg |-> update.devices[1].avg,
                             median |-> update.median,
                             threshold |-> update.threshold,
                             state |-> PointState(update.devices),
                             timestamp |-> time])]
                   ELSE c3
         IN  SetContact(cs, c4)

onProfilePic(cs, data) ==
    IF HasContact(cs, data.jid)
    THEN [cs EXCEPT ![ContactIndex(cs, data.jid)].profilePic = data.url]
    ELSE cs

onContactName(cs, data) ==
    IF HasContact(cs, data.jid)
    THEN [cs EXCEPT ![ContactIndex(cs, data.jid)].contactName = data.name]
    ELSE cs

onContactAdded(cs, data) ==
    LET existing == HasContact(cs, data.jid)
        old == cs[ContactIndex(cs, data.jid)]
    IN  SetContact(cs,
            [jid |-> data.jid,
             displayNumber |-> data.number,
             contactName |-> IF existing /\ old.contactName # <<>>
                             THEN old.contactName ELSE data.number,
             data |-> IF existing THEN old.data ELSE <<>>,
             devices |-> IF existing THEN old.devices ELSE <<>>,
             deviceCount |-> IF existing THEN old.deviceCount ELSE 0,
             presence |-> IF existing THEN old.presence ELSE Null,
             profilePic |-> IF existing THEN old.profilePic ELSE Null,
             platform |-> IF data.platform # NoPlatform THEN data.platform
                          ELSE "whatsapp",
             isTracking |-> TRUE])

(* onTrackingPaused altered:   the contact is entered anew                 *)
onTrackingPausedResetting(cs, jid) ==
    IF HasContact(cs, jid)
    THEN [cs EXCEPT ![ContactIndex(cs, jid)] =
             [@ EXCEPT !.isTracking = FALSE, !.data = <<>>]]
    ELSE cs

onTrackingPaused(cs, jid) ==
    IF HasContact(cs, jid)
    THEN [cs EXCEPT ![ContactIndex(cs, jid)].isTracking = FALSE]
    ELSE cs

onTrackingResumed(cs, jid) ==
    IF HasContact(cs, jid)
    THEN [cs EXCEPT ![ContactIndex(cs, jid)].isTracking = TRUE]
    ELSE cs

onContactRemoved(cs, jid) == DeleteContact(cs, jid)

NewContact(id, platform) ==
    [jid |-> id,
     displayNumber |-> DisplayNumber(id, platform),
     contactName |-> DisplayNumber(id, platform),
     data |-> <<>>, devices |-> <<>>, deviceCount |-> 0, presence |-> Null,
     profilePic |-> Null, platform |-> platform, isTracking |-> TRUE]

RECURSIVE onTrackedContacts(_, _)
onTrackedContacts(cs, list) ==
    IF list = <<>> THEN cs
    ELSE LET e == Head(list)
         IN  onTrackedContacts(IF HasContact(cs, e.id) THEN cs
                               ELSE Append(cs, NewContact(e.id, e.platform)),
                               Tail(list))

(***************************************************************************)
(* The command-line program.  sockets holds the connection state of every  *)
(* socket connectToWhatsApp made; currentTargetJid is whether the global   *)
(* is set; trackers holds the isTracking flag of every WhatsAppTracker     *)
(* the program constructed and currentTracker the index of the one the     *)
(* global refers to (NoTracker for null); prompts counts the questions     *)
(* waiting for a line of input, verifying the sock.onWhatsApp calls that   *)
(* have not settled and loading the connectToWhatsApp calls suspended at   *)
(* await useMultiFileAuthState, before they make their socket.  exited is  *)
(* whether the process has ended: a rejected load is an unhandled          *)
(* rejection of connectToWhatsApp, which ends the process.                 *)
(***************************************************************************)
NoTracker == 0
MinNumberLen == 10
NumberLens == {MinNumberLen - 1, MinNumberLen}
VerifyOutcomes == {"exists", "missing", "reject"}

(* connectToWhatsApp up to await useMultiFileAuthState                     *)
connectToWhatsApp(c) == [c EXCEPT !.loading = @ + 1]

(* the module's globals after the call of connectToWhatsApp at its end     *)
CliInit ==
    [sockets |-> <<>>, currentTargetJid |-> FALSE,
     currentTracker |-> NoTracker, trackers |-> <<>>, prompts |-> 0,
     verifying |-> 0, loading |-> 1, exited |-> FALSE]

(* connectToWhatsApp after await useMultiFileAuthState: makeWASocket, or,  *)
(* when the load was rejected, the end of the process (nothing catches the *)
(* rejection of the promise connectToWhatsApp returned)                    *)
onAuthLoaded(c, outcome) ==
    LET c1 == [c EXCEPT !.loading = @ - 1]
    IN  IF outcome = "ok" THEN [c1 EXCEPT !.sockets = Append(@, "connecting")]
        ELSE [c1 EXCEPT !.exited = TRUE]

(* currentTracker = new WhatsAppTracker(...); currentTracker.startTracking() *)
NewTracker(c) ==
    [c EXCEPT !.trackers = Append(@, TRUE), !.currentTracker = Len(c.trackers) + 1]

askForTarget(c) == [c EXCEPT !.prompts = @ + 1]

(* connection === 'open'                                                   *)
onConnectionOpen(c, s) ==
    LET c1 == [c EXCEPT !.sockets[s] = "open"]
    IN  IF c1.currentTargetJid THEN NewTracker(c1) ELSE askForTarget(c1)

(* connection === 'close'                                                  *)
onConnectionClose(c, s, shouldReconnect) ==
    LET c1 == [c EXCEPT !.sockets[s] = "closed"]
        c2 == IF c1.currentTracker # NoTracker
              THEN [c1 EXCEPT !.trackers[c1.currentTracker] = FALSE,
                              !.currentTracker = NoTracker]
              ELSE c1
    IN  IF shouldReconnect THEN connectToWhatsApp(c2) ELSE c2

(* the callback of rl.question, up to await sock.onWhatsApp                *)
onAnswer(c, len) ==
    IF len < MinNumberLen
    THEN askForTarget([c EXCEPT !.prompts = @ - 1])
    ELSE [c EXCEPT !.prompts = @ - 1, !.verifying = @ + 1]

(* the callback of rl.question after sock.onWhatsApp settled               *)
onVerified(c, outcome) ==
    LET c1 == [c EXCEPT !.verifying = @ - 1]
    IN  IF outcome = "exists"
        THEN NewTracker([c1 EXCEPT !.currentTargetJid = TRUE])
        ELSE askForTarget(c1)

(***************************************************************************)
(* Actions.  The bounds of a specification are parameters of its actions.  *)
(***************************************************************************)
Init ==
    /\ now = 0
    /\ trackedJids = {targetJid}
    /\ isTracking = FALSE
    /\ deviceMetrics = <<>>
    /\ globalRttHistory = <<>>
    /\ probeStartTimes = <<>>
    /\ probeTimeouts = {}
    /\ lastPresence = NoPresence
    /\ listeners = 0
    /\ subscribing = 0
    /\ loops = <<>>
    /\ nextId = 1
    /\ emitted = <<>>
    /\ fed = <<>>
    /\ last = "init"
    /\ dashboard = DashboardInit
    /\ cli = CliInit

Tick(maxTicks) ==
    /\ now + TickMs <= maxTicks * TickMs
    /\ now' = now + TickMs
    /\ last' = "tick"
    /\ emitted' = <<>>
    /\ UNCHANGED <<cli, dashboard, trackedJids, isTracking, deviceMetrics, globalRttHistory,
                   probeStartTimes, probeTimeouts, lastPresence, listeners,
                   subscribing, loops, nextId, fed>>

(* StartTrackingCall altered:   no early return when already tracking      *)
StartTrackingCallAlways(maxStarts) ==
    /\ listeners < maxStarts
    /\ isTracking' = TRUE
    /\ listeners' = listeners + 1
    /\ subscribing' = subscribing + 1
    /\ last' = IF isTracking THEN "startNoop" ELSE "start"
    /\ emitted' = <<>>
    /\ UNCHANGED <<cli, dashboard, now, trackedJids, deviceMetrics, globalRttHistory,
                   probeStartTimes, probeTimeouts, lastPresence, loops, nextId,
                   fed>>

(* startTracking up to its await: the early return, or the flag and the listeners *)
StartTrackingCall(maxStarts) ==
    /\ IF isTracking
       THEN /\ last' = "startNoop"
            /\ UNCHANGED <<isTracking, listeners, subscribing>>
       ELSE /\ listeners < maxStarts
            /\ isTracking' = TRUE
            /\ listeners' = listeners + 1
            /\ subscribing' = subscribing + 1
            /\ last' = "start"
    /\ emitted' = <<>>
    /\ UNCHANGED <<cli, dashboard, now, trackedJids, deviceMetrics, globalRttHistory,
                   probeStartTimes, probeTimeouts, lastPresence, loops, nextId,
                   fed>>

(* startTracking after await presenceSubscribe (resolved or rejected):     *)
(* the initial snapshot, then probeLoop() up to its first await            *)
StartTrackingResume(maxProbes) ==
    /\ subscribing > 0
    /\ LoopIteration(isTracking, nextId).pc = "send" => nextId <= maxProbes
    /\ subscribing' = subscribing - 1
    /\ Install(Emit(Tracker, InitialSnapshot(Tracker)))
    /\ loops' = Append(loops, LoopIteration(isTracking, nextId))
    /\ nextId' = IF LoopIteration(isTracking, nextId).pc = "send"
                 THEN nextId + 1 ELSE nextId
    /\ last' = "started"
    /\ UNCHANGED <<cli, dashboard, now, listeners>>

(* sock.sendMessage settles; sendProbe registers the probe and returns,    *)
(* which queues the continuation of the loop                               *)
SendSettles(l, outcome) ==
    /\ loops[l].pc = "send"
    /\ probeStartTimes' = RegisterProbe(probeStartTimes, outcome, loops[l].id, now)
    /\ probeTimeouts' = TimersAfterSend(probeTimeouts, outcome, loops[l].id)
    /\ loops' = [loops EXCEPT ![l] = LoopReturned]
    /\ last' = "settled"
    /\ emitted' = <<>>
    /\ UNCHANGED <<cli, dashboard, now, trackedJids, isTracking, deviceMetrics, globalRttHistory,
                   lastPresence, listeners, subscribing, nextId, fed>>

(* probeLoop after await this.sendProbe(): the loop draws its delay and    *)
(* sets its timer                                                          *)
LoopContinues(l, k) ==
    /\ loops[l].pc = "sent"
    /\ loops' = [loops EXCEPT ![l] = LoopSleeping(now + ProbeDelay(k))]
    /\ last' = "slept"
    /\ emitted' = <<>>
    /\ UNCHANGED <<cli, dashboard, now, trackedJids, isTracking, deviceMetrics, globalRttHistory,
                   probeStartTimes, probeTimeouts, lastPresence, listeners,
                   subscribing, nextId, fed>>

(* the delay timer fires; the loop tests the flag and sends or ends.  A    *)
(* timer callback is a task of its own: it runs when no continuation of a  *)
(* loop is queued                                                          *)
LoopWakes(l, maxProbes) ==
    /\ loops[l].pc = "sleep"
    /\ \A j \in 1..Len(loops) : loops[j].pc # "sent"
    /\ now >= loops[l].wakeAt
    /\ LoopIteration(isTracking, nextId).pc = "send" => nextId <= maxProbes
    /\ loops' = [loops EXCEPT ![l] = LoopIteration(isTracking, nextId)]
    /\ nextId' = IF LoopIteration(isTracking, nextId).pc = "send"
                 THEN nextId + 1 ELSE nextId
    /\ last' = "woke"
    /\ emitted' = <<>>
    /\ UNCHANGED <<cli, dashboard, now, trackedJids, isTracking, deviceMetrics, globalRttHistory,
                   probeStartTimes, probeTimeouts, lastPresence, listeners,
                   subscribing, fed>>

StopTracking ==
    /\ Install(stopTracking(Tracker))
    /\ last' = "stop"
    /\ UNCHANGED <<cli, dashboard, now, listeners, subscribing, loops, nextId>>

AckEvent(update) ==
    /\ Install(EmitMessagesUpdate(Tracker, listeners, <<update>>, now))
    /\ last' = AckKind(update)
    /\ UNCHANGED <<cli, dashboard, now, listeners, subscribing, loops, nextId>>

PresenceEvent(entries) ==
    /\ Install(EmitPresenceUpdate(Tracker, listeners, entries))
    /\ last' = "presence"
    /\ UNCHANGED <<cli, dashboard, now, listeners, subscribing, loops, nextId>>

(***************************************************************************)
(* The actions of the Dashboard.                                           *)
(***************************************************************************)
TrackerVars == <<now, trackedJids, isTracking, deviceMetrics, globalRttHistory,
                 probeStartTimes, probeTimeouts, lastPresence, listeners,
                 subscribing, loops, nextId, emitted, fed, last>>

(* onChange of the first field: setMinDelay(parseInt(e.target.value))      *)
SetMinDelay(text) ==
    /\ dashboard' = [dashboard EXCEPT !.minDelay = ParseInt(text), !.sent = <<>>]
    /\ UNCHANGED <<cli, TrackerVars>>

(* onChange of the second field: setMaxDelay(parseInt(e.target.value))     *)
SetMaxDelay(text) ==
    /\ dashboard' = [dashboard EXCEPT !.maxDelay = ParseInt(text), !.sent = <<>>]
    /\ UNCHANGED <<cli, TrackerVars>>

(* a click on the button, which is disabled while delayApplying            *)
HandleDelayChange ==
    /\ ~dashboard.delayApplying
    /\ dashboard' = handleDelayChange(dashboard)
    /\ UNCHANGED <<cli, TrackerVars>>

(* the 1500 ms timer of handleDelayChange fires                            *)
DelayApplyingReset ==
    /\ dashboard.delayApplying
    /\ dashboard' = [dashboard EXCEPT !.delayApplying = FALSE, !.sent = <<>>]
    /\ UNCHANGED <<cli, TrackerVars>>

(* socket.on('error', onError)                                             *)
ErrorEvent(data, maxErrors) ==
    /\ dashboard.errorTimers < maxErrors
    /\ dashboard' = onError(dashboard, data)
    /\ UNCHANGED <<cli, TrackerVars>>

(* a 3000 ms timer of onError fires                                        *)
ErrorTimeout ==
    /\ dashboard.errorTimers > 0
    /\ dashboard' = onErrorTimeout(dashboard)
    /\ UNCHANGED <<cli, TrackerVars>>

(***************************************************************************)
(* Spec: the session with its whole environment.                           *)
(***************************************************************************)
Next ==
    \/ Tick(MaxTicks)
    \/ StartTrackingCall(MaxStarts)
    \/ StartTrackingResume(MaxProbes)
    \/ \E l \in 1..Len(loops), outcome \in SendOutcomes : SendSettles(l, outcome)
    \/ \E l \in 1..Len(loops), k \in RandomNumerators : LoopContinues(l, k)
    \/ \E l \in 1..Len(loops) : LoopWakes(l, MaxProbes)
    \/ StopTracking
    \/ \E update \in Updates(1..MaxProbes, Statuses) : AckEvent(update)
    \/ \E entries \in PresenceUpdates : PresenceEvent(entries)

Spec == Init /\ [][Next]_vars

(***************************************************************************)
(* SpecProbe: the probe path (start, loop, send, acknowledgment, stop)     *)
(* with no presence events, so the tracked set stays {targetJid}.          *)
(***************************************************************************)
NextProbe ==
    \/ Tick(MaxTicks)
    \/ StartTrackingCall(MaxStarts)
    \/ StartTrackingResume(MaxProbes)
    \/ \E l \in 1..Len(loops), outcome \in SendOutcomes : SendSettles(l, outcome)
    \/ \E l \in 1..Len(loops), k \in RandomNumerators : LoopContinues(l, k)
    \/ \E l \in 1..Len(loops) : LoopWakes(l, MaxProbes)
    \/ StopTracking
    \/ \E update \in Updates(1..MaxProbes, ProbeStatuses) : AckEvent(update)

SpecProbe == Init /\ [][NextProbe]_vars

(***************************************************************************)
(* SpecPause: the probe path with one more start than SpecProbe (a pause   *)
(* and a resume) over a shorter time, with delivered acknowledgments only. *)
(***************************************************************************)
NextPause ==
    \/ Tick(MaxTicks - 1)
    \/ StartTrackingCall(MaxStarts + 1)
    \/ StartTrackingResume(MaxProbes)
    \/ \E l \in 1..Len(loops), outcome \in SendOutcomes : SendSettles(l, outcome)
    \/ \E l \in 1..Len(loops), k \in RandomNumerators : LoopContinues(l, k)
    \/ \E l \in 1..Len(loops) : LoopWakes(l, MaxProbes)
    \/ StopTracking
    \/ \E update \in Updates(1..MaxProbes, {DeliveryAck}) : AckEvent(update)

SpecPause == Init /\ [][NextPause]_vars

(***************************************************************************)
(* SpecPresence: the probe path with presence events.  One probe fewer and *)
(* a shorter time than SpecProbe; presence events add the second identity  *)
(* to the tracked set, so acknowledgments from it are routed or not        *)
(* according to what presence has told the session.                        *)
(***************************************************************************)
NextPresence ==
    \/ Tick(MaxTicks - 1)
    \/ StartTrackingCall(MaxStarts)
    \/ StartTrackingResume(MaxProbes - 1)
    \/ \E l \in 1..Len(loops), outcome \in SendOutcomes : SendSettles(l, outcome)
    \/ \E l \in 1..Len(loops), k \in RandomNumerators : LoopContinues(l, k)
    \/ \E l \in 1..Len(loops) : LoopWakes(l, MaxProbes - 1)
    \/ StopTracking
    \/ \E update \in Updates(1..(MaxProbes - 1), ProbeStatuses) : AckEvent(update)
    \/ \E entries \in PresenceUpdates : PresenceEvent(entries)

SpecPresence == Init /\ [][NextPresence]_vars

(***************************************************************************)
(* SpecStatus: the probe path of SpecPresence without presence events,     *)
(* with acknowledgments of every status code.                              *)
(***************************************************************************)
NextStatus ==
    \/ Tick(MaxTicks - 1)
    \/ StartTrackingCall(MaxStarts)
    \/ StartTrackingResume(MaxProbes - 1)
    \/ \E l \in 1..Len(loops), outcome \in SendOutcomes : SendSettles(l, outcome)
    \/ \E l \in 1..Len(loops), k \in RandomNumerators : LoopContinues(l, k)
    \/ \E l \in 1..Len(loops) : LoopWakes(l, MaxProbes - 1)
    \/ StopTracking
    \/ \E update \in Updates(1..(MaxProbes - 1), Statuses) : AckEvent(update)

SpecStatus == Init /\ [][NextStatus]_vars

(***************************************************************************)
(* SpecDelay: one uninterrupted loop whose delay is drawn from every value *)
(* of the random source, k / RandomDen for k in 0..RandomDen-1.            *)
(***************************************************************************)
RandomSource == 0..(RandomDen - 1)

NextDelay ==
    \/ Tick(MaxTicks)
    \/ StartTrackingCall(MaxStarts)
    \/ StartTrackingResume(MaxProbes)
    \/ \E l \in 1..Len(loops) : SendSettles(l, "ok")
    \/ \E l \in 1..Len(loops), k \in RandomSource : LoopContinues(l, k)
    \/ \E l \in 1..Len(loops) : LoopWakes(l, MaxProbes)

SpecDelay == Init /\ [][NextDelay]_vars

(***************************************************************************)
(* SpecShared: the session on a socket that another session, tracking      *)
(* another target, uses as well.  Every listener on the socket hears every *)
(* event, so this session's listeners also get the presence events and the *)
(* acknowledgments of the other target: events about foreignJid, the       *)
(* acknowledgments for message ids (ForeignId) this session never sent.    *)
(***************************************************************************)
foreignJid == "other"

ForeignId == MaxProbes + 1

ForeignUpdates ==
    [remoteJid : {foreignJid}, fromMe : BOOLEAN, id : {ForeignId}, status : {DeliveryAck}]

ForeignPresenceUpdates ==
    {<<[jid |-> foreignJid, presence |-> p]>> : p \in Presences}

NextShared ==
    \/ Tick(MaxTicks - 1)
    \/ StartTrackingCall(MaxStarts)
    \/ StartTrackingResume(MaxProbes - 1)
    \/ \E l \in 1..Len(loops), outcome \in SendOutcomes : SendSettles(l, outcome)
    \/ \E l \in 1..Len(loops), k \in RandomNumerators : LoopContinues(l, k)
    \/ \E l \in 1..Len(loops) : LoopWakes(l, MaxProbes - 1)
    \/ StopTracking
    \/ \E update \in Updates(1..(MaxProbes - 1), {DeliveryAck}) : AckEvent(update)
    \/ \E update \in ForeignUpdates : AckEvent(update)
    \/ \E entries \in ForeignPresenceUpdates : PresenceEvent(entries)

SpecShared == Init /\ [][NextShared]_vars

(***************************************************************************)
(* SpecDashboard: the delay form of the Dashboard, its two fields edited   *)
(* to every text of up to MaxFieldLen characters.                          *)
(***************************************************************************)
NextDashboard ==
    \/ \E text \in FieldTexts(MaxFieldLen) : SetMinDelay(text)
    \/ \E text \in FieldTexts(MaxFieldLen) : SetMaxDelay(text)
    \/ HandleDelayChange
    \/ DelayApplyingReset
    \/ \E message \in {"boom"} : ErrorEvent([message |-> message], MaxErrors)
    \/ ErrorTimeout

SpecDashboard == Init /\ [][NextDashboard]_vars

(***************************************************************************)
(* SpecTimeout: the probe path over a time longer than the offline cutoff, *)
(* with the acknowledgments the target's device sends for the probes (and  *)
(* those it never sends).                                                  *)
(***************************************************************************)
DeviceAcks(ids) ==
    [remoteJid : {targetJid}, fromMe : {TRUE}, id : ids, status : {DeliveryAck}]

NextTimeout ==
    \/ Tick(MaxTicks + 1)
    \/ StartTrackingCall(MaxStarts)
    \/ StartTrackingResume(MaxProbes)
    \/ \E l \in 1..Len(loops), outcome \in SendOutcomes : SendSettles(l, outcome)
    \/ \E l \in 1..Len(loops), k \in RandomNumerators : LoopContinues(l, k)
    \/ \E l \in 1..Len(loops) : LoopWakes(l, MaxProbes)
    \/ StopTracking
    \/ \E update \in DeviceAcks(1..MaxProbes) : AckEvent(update)

SpecTimeout == Init /\ [][NextTimeout]_vars

(***************************************************************************)
(* SpecCli: the command-line program.  Sockets open and close in any       *)
(* order, a closed socket is replaced when the program reconnects, the     *)
(* user answers the prompts and the verifications settle at any time.      *)
(***************************************************************************)
ConnectionOpen(s) ==
    /\ ~cli.exited
    /\ cli.sockets[s] = "connecting"
    /\ cli.currentTargetJid => Len(cli.trackers) < MaxTrackers
    /\ cli' = onConnectionOpen(cli, s)
    /\ UNCHANGED <<dashboard, TrackerVars>>

ConnectionClose(s, shouldReconnect) ==
    /\ ~cli.exited
    /\ cli.sockets[s] # "closed"
    /\ shouldReconnect => Len(cli.sockets) + cli.loading < MaxSockets
    /\ cli' = onConnectionClose(cli, s, shouldReconnect)
    /\ UNCHANGED <<dashboard, TrackerVars>>

AuthLoaded(outcome) ==
    /\ ~cli.exited
    /\ cli.loading > 0
    /\ cli' = onAuthLoaded(cli, outcome)
    /\ UNCHANGED <<dashboard, TrackerVars>>

Answer(len) ==
    /\ ~cli.exited
    /\ cli.prompts > 0
    /\ cli' = onAnswer(cli, len)
    /\ UNCHANGED <<dashboard, TrackerVars>>

Verified(outcome) ==
    /\ ~cli.exited
    /\ cli.verifying > 0
    /\ outcome = "exists" => Len(cli.trackers) < MaxTrackers
    /\ cli' = onVerified(cli, outcome)
    /\ UNCHANGED <<dashboard, TrackerVars>>

NextCli ==
    \/ \E outcome \in {"ok", "reject"} : AuthLoaded(outcome)
    \/ \E s \in 1..Len(cli.sockets) : ConnectionOpen(s)
    \/ \E s \in 1..Len(cli.sockets), shouldReconnect \in BOOLEAN :
          ConnectionClose(s, shouldReconnect)
    \/ \E len \in NumberLens : Answer(len)
    \/ \E outcome \in VerifyOutcomes : Verified(outcome)

SpecCli == Init /\ [][NextCli]_vars

(***************************************************************************)
(* SpecContacts: the contact map of the Dashboard under the events of its  *)
(* socket, in any order.                                                   *)
(***************************************************************************)
Device(state) == [jid |-> targetJid, state |-> state, rtt |-> 100, avg |-> 100]
DeviceLists == {<<>>, <<Device(Standby), Device(Online)>>}
SnapshotFields == {"devices", "deviceCount", "presence", "median", "threshold"}
TrackerUpdates ==
    {[jid |-> jid, has |-> has, presence |-> "available",
      deviceCount |-> Len(devices), devices |-> devices,
      median |-> 100, threshold |-> 80] :
        jid \in ContactIds \cup {MissingJid},
        has \in {SnapshotFields, {"presence"}},
        devices \in DeviceLists}
TrackedLists ==
    LET entries == {[id |-> WhatsAppId, platform |-> "whatsapp"],
                    [id |-> SignalId, platform |-> "signal"]}
    IN  {<<>>} \cup {<<a>> : a \in entries}
               \cup {<<a, b>> : a \in entries, b \in entries}

(* the component after setContacts(prev => cs) in the handler of the event *)
(* `name` for the identifier jid                                           *)
AfterEvent(name, jid, cs) ==
    [dashboard EXCEPT !.contacts = cs, !.event = <<name, jid>>, !.sent = <<>>]

TrackerUpdateEvent(update, maxPoints) ==
    /\ \A i \in 1..Len(dashboard.contacts) : Len(dashboard.contacts[i].data) < maxPoints
    /\ dashboard' = AfterEvent("tracker-update", update.jid,
                               onTrackerUpdate(dashboard.contacts, update, now))
    /\ UNCHANGED <<cli, TrackerVars>>

ProfilePicEvent(data) ==
    /\ dashboard' = AfterEvent("profile-pic", data.jid, onProfilePic(dashboard.contacts, data))
    /\ UNCHANGED <<cli, TrackerVars>>

ContactNameEvent(data) ==
    /\ dashboard' = AfterEvent("contact-name", data.jid, onContactName(dashboard.contacts, data))
    /\ UNCHANGED <<cli, TrackerVars>>

ContactAddedEvent(data) ==
    /\ dashboard' = AfterEvent("contact-added", data.jid, onContactAdded(dashboard.contacts, data))
    /\ UNCHANGED <<cli, TrackerVars>>

TrackingPausedEvent(jid) ==
    /\ dashboard' = AfterEvent("tracking-paused", jid, onTrackingPaused(dashboard.contacts, jid))
    /\ UNCHANGED <<cli, TrackerVars>>

TrackingResumedEvent(jid) ==
    /\ dashboard' = AfterEvent("tracking-resumed", jid, onTrackingResumed(dashboard.contacts, jid))
    /\ UNCHANGED <<cli, TrackerVars>>

ContactRemovedEvent(jid) ==
    /\ dashboard' = AfterEvent("contact-removed", jid, onContactRemoved(dashboard.contacts, jid))
    /\ UNCHANGED <<cli, TrackerVars>>

TrackedContactsEvent(list) ==
    /\ dashboard' = AfterEvent("tracked-contacts", MissingJid, onTrackedContacts(dashboard.contacts, list))
    /\ UNCHANGED <<cli, TrackerVars>>

NextContacts ==
    \/ \E update \in TrackerUpdates : TrackerUpdateEvent(update, MaxPoints)
    \/ \E jid \in ContactIds, url \in {"pic"} :
          ProfilePicEvent([jid |-> jid, url |-> url])
    \/ \E jid \in ContactIds, name \in {<<"Ann">>} :
          ContactNameEvent([jid |-> jid, name |-> name])
    \/ \E jid \in ContactIds, number \in {<<"491">>}, platform \in {"signal", NoPlatform} :
          ContactAddedEvent([jid |-> jid, number |-> number, platform |-> platform])
    \/ \E jid \in ContactIds : TrackingPausedEvent(jid)
    \/ \E jid \in ContactIds : TrackingResumedEvent(jid)
    \/ \E jid \in ContactIds : ContactRemovedEvent(jid)
    \/ \E list \in TrackedLists : TrackedContactsEvent(list)
    \/ \E message \in {"boom"} : ErrorEvent([message |-> message], MaxErrors)
    \/ ErrorTimeout

SpecContacts == Init /\ [][NextContacts]_vars

(***************************************************************************)
(* SpecClassify: the classifier alone.  addMeasurementForDevice is applied *)
(* to every sequence of at most MaxSamples samples (jid, rtt), the rtt     *)
(* drawn from RttSamples: two in-range values whose ratio is exactly the   *)
(* threshold factor, the cutoff itself and the first value above it.       *)
(***************************************************************************)
RttSamples == {100, 125, OfflineCutoff, OfflineCutoff + 1}

Measure(jid, rtt) ==
    /\ Install(addMeasurementForDevice(Tracker, jid, rtt, now))
    /\ last' = "measure"
    /\ UNCHANGED <<cli, dashboard, now, listeners, subscribing, loops, nextId>>

NextClassify ==
    \E jid \in JIDS, rtt \in RttSamples : Len(fed) < MaxSamples /\ Measure(jid, rtt)

SpecClassify == Init /\ [][NextClassify]_vars

(***************************************************************************)
(* SpecRing: the buffers past their capacity.  One long stream of samples: *)
(* the k-th sample is RingRtt(k), in range except every 50th; the first    *)
(* sample goes to either device, the rest to the target.                   *)
(***************************************************************************)
RingRtt(k) == IF k % 50 = 49 THEN OfflineCutoff + 1 ELSE 100 + (k % 7)

RingPush(jid) ==
    /\ Len(fed) < MaxRingPushes
    /\ Len(fed) >= 1 => jid = targetJid
    /\ Measure(jid, RingRtt(Len(fed)))

NextRing == \E jid \in JIDS : RingPush(jid)

SpecRing == Init /\ [][NextRing]_vars

(***************************************************************************)
(* Properties.                                                             *)
(***************************************************************************)
LastN(s, n) == IF Len(s) <= n THEN s ELSE SubSeq(s, Len(s) - n + 1, Len(s))

(* the in-range rtts fed so far for the devices in jids, oldest first      *)
InRangeFed(jids) ==
    LET sel == SelectSeq(fed, LAMBDA e : e[1] \in jids /\ e[2] <= OfflineCutoff)
    IN  [i \in 1..Len(sel) |-> sel[i][2]]

LastFed == fed[Len(fed)]

(* the k-th smallest value of buf, by counting                             *)
KthSmallest(buf, k) ==
    CHOOSE v \in Range(buf) :
        /\ Cardinality({i \in 1..Len(buf) : buf[i] < v}) < k
        /\ Cardinality({i \in 1..Len(buf) : buf[i] > v}) <= Len(buf) - k

(* twice the median of buf (Len(buf) > 0)                                  *)
TrueMedian2(buf) ==
    IF Len(buf) % 2 = 1
    THEN 2 * KthSmallest(buf, (Len(buf) + 1) \div 2)
    ELSE KthSmallest(buf, Len(buf) \div 2) + KthSmallest(buf, Len(buf) \div 2 + 1)

ProbeUpdates == Updates(1..MaxProbes, ProbeStatuses)

(* C1: every bounded buffer holds at most its capacity and equals the most *)
(* recently pushed in-range samples, oldest first: rttHistory (2000) and   *)
(* recentRtts (3) of each device, over that device's samples, and          *)
(* globalRttHistory (2000), over the samples of all devices.               *)
C1_BuffersHoldMostRecent ==
    /\ Len(globalRttHistory) <= GlobalCap
    /\ globalRttHistory = LastN(InRangeFed(JIDS), GlobalCap)
    /\ \A i \in 1..Len(deviceMetrics) :
        LET metrics == deviceMetrics[i]
            samples == InRangeFed({metrics.jid})
        IN  /\ Len(metrics.rttHistory) <= HistoryCap
            /\ Len(metrics.recentRtts) <= RecentCap
            /\ metrics.rttHistory = LastN(samples, HistoryCap)
            /\ metrics.recentRtts = LastN(samples, RecentCap)

C1_Witness ==
    /\ Len(deviceMetrics) = 2
    /\ Len(InRangeFed({targetJid})) > HistoryCap
    /\ Len(InRangeFed(JIDS)) > GlobalCap + 1
    /\ Len(fed) > Len(InRangeFed(JIDS))

(* C2: the population median, as calculateGlobalMedian returns it and as   *)
(* determineDeviceState computes it, is 0 below 3 samples and otherwise    *)
(* the median of the buffer's values (carried doubled), on every buffer    *)
(* the session reaches and on the five buffers of the specification's      *)
(* examples.                                                               *)
C2_MedianIsTrueMedian ==
    LET expected == IF Len(globalRttHistory) < 3 THEN 0
                    ELSE TrueMedian2(globalRttHistory)
    IN  /\ calculateGlobalMedian(globalRttHistory) = expected
        /\ DeviceStateMedian(globalRttHistory) = expected
        /\ \A buf \in {<<>>, <<7>>, <<7, 9>>} : calculateGlobalMedian(buf) = 0
        /\ calculateGlobalMedian(<<10, 20, 30>>) = 2 * 20
        /\ calculateGlobalMedian(<<10, 20, 30, 40>>) = 2 * 25

C2_Witness ==
    /\ Len(globalRttHistory) = 4
    /\ globalRttHistory[1] > globalRttHistory[2]
    /\ globalRttHistory[3] > globalRttHistory[4]
    /\ calculateGlobalMedian(globalRttHistory) = 225

(* C3, as claimed: a delivered acknowledgment that the session routes and  *)
(* whose probe id is pending with send time t0, any t0, yields the sample  *)
(* now - t0 for the acknowledging device and removes the pending entry.    *)
C3_PendingAckYieldsSample ==
    [][\A u \in ProbeUpdates :
          (/\ AckEvent(u)
           /\ listeners > 0
           /\ Routed(Tracker, u)
           /\ u.status = DeliveryAck
           /\ u.id \in DOMAIN probeStartTimes)
          => /\ fed' = Append(fed, <<u.remoteJid, now - probeStartTimes[u.id]>>)
             /\ u.id \notin DOMAIN probeStartTimes']_vars

(* C4: a delivered acknowledgment whose probe id is not pending changes    *)
(* nothing of the session and emits no snapshot.  (The step is named by    *)
(* last: "ackUnmatched" is a routed delivered acknowledgment for which     *)
(* probeStartTimes.get gives no start time: the else branch of the test    *)
(* if (startTime).)                                                        *)
C4_UnmatchedAckChangesNothing ==
    [][last' = "ackUnmatched"
          => /\ UNCHANGED <<probeStartTimes, probeTimeouts, deviceMetrics,
                            globalRttHistory, trackedJids, lastPresence,
                            isTracking, fed>>
             /\ emitted' = <<>>]_vars

C4_Witness ==
    /\ last = "ackUnmatched"
    /\ deviceMetrics # <<>>
    /\ DOMAIN probeStartTimes # {}
    /\ emitted = <<>>

(* C5, as claimed: every pending probe holds a timeout timer of its own,   *)
(* which is what removes the entry when no acknowledgment arrives.         *)
C5_PendingProbeHasTimeout ==
    \A id \in DOMAIN probeStartTimes : id \in probeTimeouts

(* C6: once stopTracking has returned there is no pending timeout timer,   *)
(* so none can fire: the set of timers is empty whenever the session is    *)
(* not tracking.                                                           *)
C6_NoTimerAfterStop ==
    ~isTracking => probeTimeouts = {}

C6_Witness ==
    /\ last = "stop"
    /\ ~isTracking
    /\ nextId > 1
    /\ \E l \in 1..Len(loops) : loops[l].pc = "sleep"

(* C7: while the tracking flag is cleared no probe send starts, and a loop *)
(* that wakes from its delay then ends.                                    *)
C7_NoSendAfterStop ==
    [][~isTracking =>
          /\ nextId' = nextId
          /\ \A l \in 1..Len(loops) :
                loops[l].pc = "sleep" /\ loops'[l] # loops[l] => loops'[l].pc = "done"]_vars

C7_Witness ==
    /\ last = "woke"
    /\ ~isTracking
    /\ \E l \in 1..Len(loops) : loops[l].pc = "done"
    /\ nextId <= MaxProbes

(* C8: stopTracking and startTracking (its call and its continuation)      *)
(* leave the device metrics, the population buffer, the tracked set and    *)
(* the last presence as they were, and the continuation of a start that    *)
(* finds the session tracking sends a probe.                               *)
C8_PauseResumeKeepsStatistics ==
    [][/\ (StopTracking \/ StartTrackingCall(MaxStarts + 1) \/ StartTrackingResume(MaxProbes))
          => UNCHANGED <<deviceMetrics, globalRttHistory, trackedJids, lastPresence>>
       /\ (StartTrackingResume(MaxProbes) /\ isTracking)
          => /\ nextId' = nextId + 1
             /\ loops'[Len(loops')] = LoopSending(nextId)]_vars

C8_Witness ==
    /\ last = "started"
    /\ listeners = 2
    /\ isTracking
    /\ deviceMetrics # <<>>
    /\ globalRttHistory # <<>>
    /\ loops[Len(loops)].pc = "send"

(* C9: a sample above 5000 sets the device Offline and is recorded in      *)
(* lastRtt and lastUpdate only: recentRtts, rttHistory and the population  *)
(* buffer stay as they were, and the population buffer never holds a value *)
(* above 5000.                                                             *)
C9_OutlierOnlyMarksOffline ==
    /\ [](\A i \in 1..Len(globalRttHistory) : globalRttHistory[i] <= 5000)
    /\ [][\A jid \in JIDS, rtt \in RttSamples :
            (Measure(jid, rtt) /\ rtt > 5000)
            => LET after == GetDevice(deviceMetrics', jid)
               IN  /\ after.state = Offline
                   /\ after.lastRtt = rtt
                   /\ after.lastUpdate = now
                   /\ globalRttHistory' = globalRttHistory
                   /\ IF HasDevice(deviceMetrics, jid)
                      THEN /\ after.recentRtts = GetDevice(deviceMetrics, jid).recentRtts
                           /\ after.rttHistory = GetDevice(deviceMetrics, jid).rttHistory
                      ELSE /\ after.recentRtts = <<>>
                           /\ after.rttHistory = <<>>]_vars

C9_Witness ==
    /\ fed # <<>>
    /\ LastFed[2] > 5000
    /\ GetDevice(deviceMetrics, LastFed[1]).state = Offline
    /\ Len(GetDevice(deviceMetrics, LastFed[1]).rttHistory) = 3
    /\ Len(globalRttHistory) = 3

(* C10: after an in-range sample the device is Calibrating while the       *)
(* population buffer holds fewer than 3 samples; otherwise Online exactly  *)
(* when the mean of its recentRtts is below 0.8 times the population       *)
(* median, and Standby otherwise (mean < 0.8 * median is                   *)
(* 10 * sum < 4 * (2 * median) * count).  The two cases of the example,    *)
(* population [100, 120, 140] with moving average 80 and 110, are checked  *)
(* with it.                                                                *)
C10_StateAfterInRangeSample ==
    (fed # <<>> /\ LastFed[2] <= 5000) =>
        LET metrics == GetDevice(deviceMetrics, LastFed[1])
            total == SumSeq(metrics.recentRtts)
            count == Len(metrics.recentRtts)
        IN  /\ metrics.state =
                    IF Len(globalRttHistory) < 3 THEN Calibrating
                    ELSE IF 10 * total < 4 * TrueMedian2(globalRttHistory) * count
                         THEN Online
                         ELSE Standby
            /\ ClassifyState(<<80>>, <<100, 120, 140>>) = Online
            /\ ClassifyState(<<110>>, <<100, 120, 140>>) = Standby

C10_Witness ==
    /\ fed # <<>>
    /\ LastFed[2] <= 5000
    /\ GetDevice(deviceMetrics, LastFed[1]).state = Online
    /\ \E i \in 1..Len(deviceMetrics) : deviceMetrics[i].state = Standby

(* the rtts fed so far for the device jid, oldest first                    *)
FedFor(jid) ==
    LET sel == SelectSeq(fed, LAMBDA e : e[1] = jid)
    IN  [i \in 1..Len(sel) |-> sel[i][2]]

(* C11: an in-range sample for a device that is Offline takes it out of    *)
(* Offline at once: after the sample the device is Calibrating, Online or  *)
(* Standby.                                                                *)
C11_InRangeSampleLeavesOffline ==
    [][\A jid \in JIDS, rtt \in RttSamples :
          (/\ Measure(jid, rtt)
           /\ rtt <= 5000
           /\ HasDevice(deviceMetrics, jid)
           /\ GetDevice(deviceMetrics, jid).state = Offline)
          => GetDevice(deviceMetrics', jid).state \in {Calibrating, Online, Standby}]_vars

C11_Witness ==
    \E jid \in JIDS :
        LET samples == FedFor(jid)
            n == Len(samples)
        IN  /\ n >= 2
            /\ LastFed[1] = jid
            /\ samples[n - 1] > 5000
            /\ samples[n] <= 5000
            /\ GetDevice(deviceMetrics, jid).state = Standby

(* C12: the lastRtt of every device is the most recent sample fed for it,  *)
(* in range or above the cutoff, the sample that created its metrics       *)
(* included.                                                               *)
C12_LastRttIsMostRecentSample ==
    /\ \A jid \in JIDS : HasDevice(deviceMetrics, jid) <=> FedFor(jid) # <<>>
    /\ \A i \in 1..Len(deviceMetrics) :
          LET samples == FedFor(deviceMetrics[i].jid)
          IN  deviceMetrics[i].lastRtt = samples[Len(samples)]

C12_Witness ==
    \E i \in 1..Len(deviceMetrics) :
        /\ deviceMetrics[i].lastRtt > 5000
        /\ deviceMetrics[i].rttHistory # <<>>
        /\ \E j \in 1..Len(deviceMetrics) :
              /\ deviceMetrics[j].rttHistory = <<>>
              /\ deviceMetrics[j].lastRtt > 5000

(* C13: the tracked set holds the target from construction on, and no step *)
(* of the session (acknowledgment, presence, start, stop, probe) removes   *)
(* an identity from it.                                                    *)
C13_TrackedSetNeverShrinks ==
    /\ [](targetJid \in trackedJids)
    /\ [][trackedJids \subseteq trackedJids']_vars

C13_Witness ==
    /\ last = "stop"
    /\ trackedJids = JIDS
    /\ deviceMetrics # <<>>

(* C14: a presence event handled twice leaves the session as handling it   *)
(* once does: from every state the session reaches and for every presence  *)
(* event, the second delivery changes neither the tracked set, the last    *)
(* presence, the device metrics nor the population buffer.                 *)
C14_PresenceEventIdempotent ==
    \A entries \in PresenceUpdates :
        LET once == EmitPresenceUpdate(Tracker, listeners, entries)
            twice == EmitPresenceUpdate(once, listeners, entries)
        IN  /\ twice.trackedJids = once.trackedJids
            /\ twice.lastPresence = once.lastPresence
            /\ twice.deviceMetrics = once.deviceMetrics
            /\ twice.globalRttHistory = once.globalRttHistory

C14_Witness ==
    /\ last = "presence"
    /\ listeners > 0
    /\ trackedJids = JIDS
    /\ lastPresence = "unavailable"
    /\ deviceMetrics # <<>>

(* the identities of a presence event that carry a presence value          *)
PresenceNamed(entries) ==
    {entries[i].jid : i \in {j \in 1..Len(entries) : entries[j].presence # NoPresence}}

(* C15, as claimed: after a presence event is handled, every identity it   *)
(* names with a presence value is in the tracked set.                      *)
C15_EveryNamedIdentityTracked ==
    [][\A entries \in PresenceUpdates :
          (PresenceEvent(entries) /\ listeners > 0)
          => PresenceNamed(entries) \subseteq trackedJids']_vars

(* the session after the event <<update>> is delivered to its listeners    *)
AfterAck(update) == EmitMessagesUpdate(Tracker, listeners, <<update>>, now)

(* the event left everything the correlator and the classifier keep as it  *)
(* was and emitted no snapshot                                             *)
AckDropped(update) ==
    LET after == AfterAck(update)
    IN  /\ after.probeStartTimes = probeStartTimes
        /\ after.probeTimeouts = probeTimeouts
        /\ after.deviceMetrics = deviceMetrics
        /\ after.globalRttHistory = globalRttHistory
        /\ after.fed = fed
        /\ after.emitted = <<>>

(* C16: a message update whose status is not 3 (error, pending, server     *)
(* ack, read, played, or no status) is dropped, from every state the       *)
(* session reaches, whatever its identity, origin and id, a pending id     *)
(* included.                                                               *)
C16_OtherStatusIsDropped ==
    \A update \in Updates(1..MaxProbes, Statuses) :
        update.status # 3 => AckDropped(update)

C16_Witness ==
    /\ last = "ackOtherStatus"
    /\ isTracking
    /\ \E id \in DOMAIN probeStartTimes : probeStartTimes[id] # 0

(* C17: an acknowledgment that is not addressed to a tracked identity, or  *)
(* is not marked fromMe, or whose id is not pending, is dropped: it        *)
(* creates or changes no device metrics (nor anything else), from every    *)
(* state the session reaches.                                              *)
C17_OnlyRoutedPendingAckIsClassified ==
    \A update \in Updates(1..MaxProbes, ProbeStatuses) :
        ~(/\ update.remoteJid \in trackedJids
          /\ update.fromMe
          /\ update.id \in DOMAIN probeStartTimes)
        => AckDropped(update)

C17_Witness ==
    /\ last = "ackUnrouted"
    /\ trackedJids = {targetJid}
    /\ \E id \in DOMAIN probeStartTimes : probeStartTimes[id] # 0
    /\ \E l \in 1..Len(loops) : loops[l].pc = "sleep"
    /\ now > 0

(* C18: a step that records a sample records one and passes exactly one    *)
(* snapshot to the listener, and that snapshot shows the sampled device    *)
(* with the state computed for this sample and with the sample as its rtt. *)
C18_OneSnapshotPerSample ==
    [][fed' # fed
          => /\ Len(fed') = Len(fed) + 1
             /\ Len(emitted') = 1
             /\ LET jid == fed'[Len(fed')][1]
                    i == DeviceIndex(deviceMetrics', jid)
                    shown == emitted'[1].devices[i]
                IN  /\ shown.jid = jid
                    /\ shown.rtt = fed'[Len(fed')][2]
                    /\ shown.state = deviceMetrics'[i].state]_vars

C18_Witness ==
    /\ last = "measure"
    /\ Len(emitted) = 1
    /\ LastFed[2] > 5000
    /\ Len(emitted[1].devices) = 2
    /\ \E i, j \in 1..2 : /\ emitted[1].devices[i].state = Offline
                          /\ emitted[1].devices[j].state = Online

(* C19, as claimed: a snapshot is passed to the listener by startTracking  *)
(* (first start and resume), by stopTracking on a tracking session, and by *)
(* a presence event that adds an identity to the tracked set.              *)
C19_SnapshotAfterLifecycleChange ==
    [][(\/ last' = "started"
        \/ (last' = "stop" /\ isTracking)
        \/ (last' = "presence" /\ trackedJids' # trackedJids))
          => emitted' # <<>>]_vars

(* the snapshot shows the session as it is now (avg as <<sum, count>>,     *)
(* the median doubled, the threshold times 10: 10 * 0.8 * m = 4 * 2 * m)   *)
SnapshotIsCurrent(snapshot) ==
    /\ Len(snapshot.devices) = Len(deviceMetrics)
    /\ \A i \in 1..Len(deviceMetrics) :
          LET shown == snapshot.devices[i]
              metrics == deviceMetrics[i]
          IN  /\ shown.jid = metrics.jid
              /\ shown.state = metrics.state
              /\ shown.rtt = metrics.lastRtt
              /\ shown.avg = IF metrics.recentRtts = <<>> THEN <<0, 1>>
                             ELSE <<SumSeq(metrics.recentRtts), Len(metrics.recentRtts)>>
    /\ snapshot.deviceCount = Cardinality(trackedJids)
    /\ snapshot.presence = lastPresence
    /\ snapshot.median2 = IF Len(globalRttHistory) < 3 THEN 0
                          ELSE TrueMedian2(globalRttHistory)
    /\ snapshot.threshold10 = 4 * snapshot.median2

(* C20, as claimed: every snapshot passed to the listener, the one of      *)
(* startTracking included, shows the session as it is when it is passed.   *)
C20_SnapshotShowsCurrentState ==
    \A k \in 1..Len(emitted) : SnapshotIsCurrent(emitted[k])

(* C21: a send that is rejected or returns no id registers no pending      *)
(* probe and leaves the loop running: the loop sleeps its drawn delay, and *)
(* a loop that wakes while the session is tracking sends again.            *)
C21_FailedSendKeepsLoopRunning ==
    [][/\ \A l \in 1..Len(loops), outcome \in {"noid", "reject"} :
            SendSettles(l, outcome)
            => /\ probeStartTimes' = probeStartTimes
               /\ loops'[l] = LoopReturned
       /\ \A l \in 1..Len(loops), k \in RandomNumerators :
            LoopContinues(l, k) => loops'[l] = LoopSleeping(now + ProbeDelay(k))
       /\ \A l \in 1..Len(loops) :
            (LoopWakes(l, MaxProbes) /\ isTracking)
            => loops'[l] = LoopSending(nextId)]_vars

C21_Witness ==
    /\ last = "woke"
    /\ isTracking
    /\ listeners = 1
    /\ fed = <<>>
    /\ probeStartTimes = <<>>
    /\ \E l \in 1..Len(loops) : loops[l] = LoopSending(2)

(* C22: every delay the loop sleeps is a whole number of milliseconds from *)
(* 2000 to 2099, whatever the random source returns, and each cycle draws  *)
(* its own: each value of the source gives the delay                       *)
(* floor(random * 100) + 2000 in the cycle that draws it.                  *)
C22_DelayWithinRange ==
    [][\A l \in 1..Len(loops) :
          (loops[l].pc = "sent" /\ loops'[l].pc = "sleep")
          => /\ loops'[l].wakeAt - now \in 2000..2099
             /\ \E k \in RandomSource :
                   /\ loops'[l].wakeAt - now = ProbeDelay(k)
                   /\ 100 * k - RandomDen < RandomDen * (ProbeDelay(k) - 2000)
                   /\ RandomDen * (ProbeDelay(k) - 2000) <= 100 * k]_vars

C22_Witness ==
    /\ last = "slept"
    /\ nextId = 3
    /\ 2 \in DOMAIN probeStartTimes
    /\ probeStartTimes[2] = now
    /\ \E l \in 1..Len(loops) : loops[l] = LoopSleeping(now + 2099)

(* C23, as claimed: a presence event or an acknowledgment that concerns    *)
(* only the identities of another session's target leaves this session's   *)
(* tracked set (and so its deviceCount), last presence, device metrics and *)
(* population buffer as they were.                                         *)
C23_ForeignEventsChangeNothing ==
    [][/\ \A entries \in ForeignPresenceUpdates :
            PresenceEvent(entries)
            => UNCHANGED <<trackedJids, lastPresence, deviceMetrics, globalRttHistory>>
       /\ \A update \in ForeignUpdates :
            AckEvent(update)
            => UNCHANGED <<trackedJids, lastPresence, deviceMetrics, globalRttHistory>>]_vars

(* the probe loops that have not left their while loop                     *)
ActiveLoops == {l \in 1..Len(loops) : loops[l].pc # "done"}

(* C24, as claimed: whatever startTracking and stopTracking calls are      *)
(* made, at most one probe loop of the tracker is active.                  *)
C24_AtMostOneLoop ==
    Cardinality(ActiveLoops) <= 1

(* C25, as claimed: from the return of stopTracking until startTracking is *)
(* called again the session holds no pending probe, classifies no sample   *)
(* and emits no snapshot.  (Steps taken while a startTracking call is      *)
(* still awaiting its subscription are left out.)                          *)
C25_NothingHappensWhileStopped ==
    [][(listeners > 0 /\ subscribing = 0 /\ ~isTracking /\ ~isTracking')
          => /\ probeStartTimes' = <<>>
             /\ fed' = fed
             /\ emitted' = <<>>]_vars

(* C26, as claimed: a click on the delay button emits set-probe-delay with *)
(* the two delays exactly when both are numbers and minDelay < maxDelay;   *)
(* otherwise (an empty or unparsable field included) nothing is emitted,   *)
(* the error is shown and the configuration in force stays.                *)
C26_DelayAppliedOnlyWhenValid ==
    [][HandleDelayChange
          => IF /\ dashboard.minDelay # NaN
                /\ dashboard.maxDelay # NaN
                /\ dashboard.minDelay < dashboard.maxDelay
             THEN dashboard'.sent = <<[minDelay |-> dashboard.minDelay,
                                       maxDelay |-> dashboard.maxDelay]>>
             ELSE /\ dashboard'.sent = <<>>
                  /\ dashboard'.error = DelayError
                  /\ dashboard'.applied = dashboard.applied]_vars

(* the ids pending for longer than the offline cutoff                      *)
OverduePending ==
    {id \in DOMAIN probeStartTimes : now - probeStartTimes[id] > OfflineCutoff}

(* C27: only the delivered acknowledgment of a pending probe gives a       *)
(* sample: every other step (time passing over a probe that is not         *)
(* acknowledged, however long; the loop; start and stop) leaves the device *)
(* metrics and the population buffer as they were, and marks no device     *)
(* Offline.                                                                *)
C27_UnackedProbeChangesNoDevice ==
    [][last' # "ackPending"
          => UNCHANGED <<deviceMetrics, globalRttHistory, fed>>]_vars

C27_Witness ==
    /\ OverduePending # {}
    /\ deviceMetrics # <<>>
    /\ \A i \in 1..Len(deviceMetrics) : deviceMetrics[i].state # Offline
    /\ last = "tick"

(* C28, as claimed: once a probe has been pending for more than 5000 ms    *)
(* the target's device is reported Offline.                                *)
C28_TimedOutDeviceIsOffline ==
    OverduePending # {}
    => /\ HasDevice(deviceMetrics, targetJid)
       /\ GetDevice(deviceMetrics, targetJid).state = Offline

(* C29: a device has metrics only if a sample was fed for it, every device *)
(* with metrics is in the tracked set, and the device list of a snapshot   *)
(* is no longer than its deviceCount.                                      *)
C29_MetricsOnlyForSampledTrackedDevices ==
    /\ \A i \in 1..Len(deviceMetrics) :
          /\ FedFor(deviceMetrics[i].jid) # <<>>
          /\ deviceMetrics[i].jid \in trackedJids
    /\ \A k \in 1..Len(emitted) : Len(emitted[k].devices) <= emitted[k].deviceCount

C29_Witness ==
    /\ last = "ackPending"
    /\ Len(emitted) = 1
    /\ Len(emitted[1].devices) = 1
    /\ emitted[1].devices[1].jid = "lid"
    /\ emitted[1].deviceCount = 2

(* C30: computing the median changes nothing of the population buffer:     *)
(* after a step that feeds a sample, classifies the device                 *)
(* (determineDeviceState) and builds the snapshot (calculateGlobalMedian   *)
(* in sendUpdate), the buffer is the buffer before with the sample pushed  *)
(* if it is in range, in insertion order, and the snapshot carries its     *)
(* median.                                                                 *)
C30_MedianLeavesBufferUnchanged ==
    [][fed' # fed
          => LET rtt == fed'[Len(fed')][2]
                 pushed == IF rtt <= 5000 THEN Append(globalRttHistory, rtt)
                           ELSE globalRttHistory
             IN  /\ globalRttHistory' = LastN(pushed, 2000)
                 /\ emitted'[1].median2 = IF Len(pushed) < 3 THEN 0
                                          ELSE TrueMedian2(globalRttHistory')]_vars

C30_Witness ==
    /\ last = "measure"
    /\ Len(globalRttHistory) >= 3
    /\ \E i \in 1..(Len(globalRttHistory) - 1) : globalRttHistory[i] > globalRttHistory[i + 1]
    /\ \E i \in 1..Len(deviceMetrics) : deviceMetrics[i].state = Online

(* the ids whose send is still awaiting the transport                      *)
InFlight == {loops[l].id : l \in {k \in 1..Len(loops) : loops[k].pc = "send"}}

(* C31: a probe gives at most one sample, with any number of listeners on  *)
(* the socket: an acknowledgment event adds at most one sample and, when   *)
(* it does, resolves a pending id; so the samples, the pending ids and the *)
(* sends in flight together never outnumber the probes sent.               *)
C31_AtMostOneSamplePerProbe ==
    /\ [](Len(fed) + Cardinality(DOMAIN probeStartTimes) + Cardinality(InFlight)
             <= nextId - 1)
    /\ [][fed' # fed
            => /\ Len(fed') = Len(fed) + 1
               /\ \E id \in DOMAIN probeStartTimes :
                     /\ id \notin DOMAIN probeStartTimes'
                     /\ fed'[Len(fed')][2] = now - probeStartTimes[id]]_vars

C31_Witness ==
    /\ last = "ackPending"
    /\ listeners = 2
    /\ Len(fed) = 1
    /\ Len(emitted) = 1
    /\ probeStartTimes = <<>>

(* C32: an acknowledgment for a probe whose send is still awaiting the     *)
(* transport is correlated: handled on a socket with a listener, it gives  *)
(* a sample.                                                               *)
C32_OwnAckAlwaysCorrelated ==
    [][\A update \in DeviceAcks(1..MaxProbes) :
          (AckEvent(update) /\ listeners > 0 /\ update.id \in InFlight)
             => Len(fed') = Len(fed) + 1]_vars

(* C33: after every call of addMeasurementForDevice each device is Offline *)
(* exactly when its last round-trip time is above the cutoff.              *)
C33_OfflineIffLastRttAboveCutoff ==
    \A i \in 1..Len(deviceMetrics) :
        (deviceMetrics[i].state = Offline) <=> (deviceMetrics[i].lastRtt > OfflineCutoff)

C33_Witness ==
    /\ last = "measure"
    /\ \E i \in 1..Len(deviceMetrics) :
          deviceMetrics[i].state = Offline /\ Len(deviceMetrics[i].recentRtts) > 0
    /\ \E i \in 1..Len(deviceMetrics) :
          /\ deviceMetrics[i].state # Offline
          /\ \E k \in 1..Len(fed) :
                fed[k][1] = deviceMetrics[i].jid /\ fed[k][2] > OfflineCutoff

(* the classification a device would get from its recent samples now       *)
Reclassified(i) ==
    ClassifyState(deviceMetrics[i].recentRtts, globalRttHistory)

(* C34: a sample for one device leaves the metrics of every other device   *)
(* as they were, whatever it does to the population median.                *)
C34_SampleChangesOnlyItsDevice ==
    [][fed' # fed =>
         \A i \in 1..Len(deviceMetrics) :
             deviceMetrics[i].jid # fed'[Len(fed')][1]
                => deviceMetrics'[i] = deviceMetrics[i]]_vars

C34_Witness ==
    /\ last = "measure"
    /\ \E i \in 1..Len(deviceMetrics) :
          /\ deviceMetrics[i].jid # fed[Len(fed)][1]
          /\ deviceMetrics[i].state \in {Online, Standby}
          /\ Reclassified(i) \in {Online, Standby}
          /\ Reclassified(i) # deviceMetrics[i].state

(* C35: the recent buffer is the tail of the history: its last             *)
(* min(RecentCap, n) samples, n the length of the history; they are the    *)
(* device's most recent in-range samples.                                  *)
C35_RecentIsTailOfHistory ==
    \A i \in 1..Len(deviceMetrics) :
        LET h == deviceMetrics[i].rttHistory
            n == IF Len(h) < RecentCap THEN Len(h) ELSE RecentCap
        IN  /\ deviceMetrics[i].recentRtts = SubSeq(h, Len(h) - n + 1, Len(h))
            /\ deviceMetrics[i].recentRtts =
                   LastN(InRangeFed({deviceMetrics[i].jid}), RecentCap)

C35_Witness ==
    \E i \in 1..Len(deviceMetrics) :
        /\ Len(deviceMetrics[i].rttHistory) > RecentCap
        /\ Len(deviceMetrics[i].recentRtts) = RecentCap
        /\ deviceMetrics[i].rttHistory[1] # deviceMetrics[i].rttHistory[2]

(* the device's metrics as determineDeviceState finds them when            *)
(* addMeasurementForDevice(jid, rtt) calls it                              *)
AtClassification(jid, rtt) ==
    IF HasDevice(deviceMetrics, jid)
    THEN RecordSample(GetDevice(deviceMetrics, jid), rtt, now)
    ELSE RecordSample(NewMetrics(jid, rtt, now), rtt, now)

(* C36: whenever determineDeviceState gets past the sticky Offline check,  *)
(* the recent buffer holds at least one sample.                            *)
C36_MovingAverageOverNonEmptyBuffer ==
    \A jid \in JIDS, rtt \in RttSamples :
        LET metrics == AtClassification(jid, rtt)
        IN  ~(metrics.state = Offline /\ metrics.lastRtt > OfflineCutoff)
               => Len(metrics.recentRtts) >= 1

C36_Witness ==
    /\ last = "measure"
    /\ \E i \in 1..Len(deviceMetrics) :
          /\ deviceMetrics[i].state = Offline
          /\ deviceMetrics[i].recentRtts = <<>>
          /\ Len(FedFor(deviceMetrics[i].jid)) >= 2

(* C37: startTracking on a session that is already tracking does nothing:  *)
(* no listener is registered, no subscription is started, no loop is       *)
(* started, no snapshot is emitted and no state changes.                   *)
C37_StartWhileTrackingIsNoop ==
    [][last' = "startNoop"
          => /\ isTracking /\ isTracking'
             /\ emitted' = <<>>
             /\ UNCHANGED <<listeners, subscribing, loops, nextId, trackedJids,
                            deviceMetrics, globalRttHistory, probeStartTimes,
                            probeTimeouts, lastPresence, fed, now>>]_vars

C37_Witness ==
    /\ last = "startNoop"
    /\ isTracking
    /\ listeners = 1
    /\ Len(loops) = 1
    /\ subscribing = 0
    /\ deviceMetrics # <<>>

(* the trackers of the running process whose isTracking flag is set        *)
ActiveTrackers ==
    IF cli.exited THEN {} ELSE {i \in 1..Len(cli.trackers) : cli.trackers[i]}

(* C38: in the command-line program at most one tracker is tracking at any *)
(* time.                                                                   *)
C38_AtMostOneActiveTracker == Cardinality(ActiveTrackers) <= 1

(* the contact map with entry i's isTracking flag set to flag              *)
WithFlag(cs, jid, flag) ==
    [i \in 1..Len(cs) |->
        IF cs[i].jid = jid THEN [cs[i] EXCEPT !.isTracking = flag] ELSE cs[i]]

(* C39: a tracking-paused or tracking-resumed event changes only the       *)
(* isTracking flag of the contact it names (to false, to true); every      *)
(* other field and every other contact is unchanged, and an event for an   *)
(* identifier that is not in the map changes nothing.                      *)
C39_PauseResumeChangesOnlyFlag ==
    [][/\ dashboard'.event[1] = "tracking-paused"
          => dashboard'.contacts =
                WithFlag(dashboard.contacts, dashboard'.event[2], FALSE)
       /\ dashboard'.event[1] = "tracking-resumed"
          => dashboard'.contacts =
                WithFlag(dashboard.contacts, dashboard'.event[2], TRUE)]_vars

C39_Witness ==
    /\ dashboard.event[1] = "tracking-paused"
    /\ Len(dashboard.contacts) = 2
    /\ \E i \in 1..2 :
          /\ dashboard.contacts[i].jid = dashboard.event[2]
          /\ ~dashboard.contacts[i].isTracking
          /\ dashboard.contacts[i].data # <<>>
          /\ dashboard.contacts[i].devices # <<>>
          /\ dashboard.contacts[i].deviceCount > 0
          /\ dashboard.contacts[i].presence # Null
          /\ dashboard.contacts[i].contactName = <<"Ann">>
          /\ dashboard.contacts[3 - i].isTracking

(* C40: a tracker-update event never adds an identifier to the contact     *)
(* map, and an identifier enters the map only by a contact-added or a      *)
(* tracked-contacts event.                                                 *)
C40_UpdateNeverCreatesContact ==
    [][/\ dashboard'.event[1] = "tracker-update"
          => ContactJids(dashboard'.contacts) = ContactJids(dashboard.contacts)
       /\ ~(ContactJids(dashboard'.contacts) \subseteq ContactJids(dashboard.contacts))
          => dashboard'.event[1] \in {"contact-added", "tracked-contacts"}]_vars

C40_Witness ==
    /\ dashboard.event[1] = "tracker-update"
    /\ dashboard.event[2] \in ContactIds
    /\ dashboard.event[2] \notin ContactJids(dashboard.contacts)
    /\ dashboard.contacts # <<>>

====
